---- MODULE Spec2Model ----
(***************************************************************************)
(* BackUpFreeSpace (pb_nav2_plugins): the free-sector sweep                *)
(* findBestDirection and the onConfigure / onRun / onCycleUpdate state     *)
(* machine of src/behaviors/back_up_free_space.cpp.                        *)
(*                                                                         *)
(* Number representation                                                   *)
(*   angles     binary32 values, as integers in units of 2^-28 rad.  Every *)
(*              angle the sweep produces is a multiple of that unit, so    *)
(*              float addition, subtraction and halving are modelled       *)
(*              exactly, including their rounding to 24 significant bits.  *)
(*   lengths    fixed point, 1/1000 m (pose, origin, resolution, radius,   *)
(*              target distance, measured distance).                       *)
(*   cos, sin   1/1000, tabulated at multiples of pi/64.                   *)
(*   time       whole seconds.                                             *)
(***************************************************************************)
EXTENDS Integers, Sequences, FiniteSets, TLC

Abs(x) == IF x < 0 THEN -x ELSE x

(***************************************************************************)
(* binary32 arithmetic on angles                                           *)
(***************************************************************************)
\* Spacing of the binary32 values around magnitude m: the least power of
\* two q with m < q * 2^24.
RECURSIVE Ulp(_, _)
Ulp(m, q) == IF m \div 16777216 < q THEN q ELSE Ulp(m, 2 * q)

\* Round to the nearest binary32 value, ties to even.
RoundF(x) ==
    LET q   == Ulp(Abs(x), 1)
        lo  == (x \div q) * q
        rem == x - lo
    IN  IF 2 * rem < q THEN lo
        ELSE IF 2 * rem > q THEN lo + q
        ELSE IF (lo \div q) % 2 = 0 THEN lo ELSE lo + q

FAdd(a, b) == RoundF(a + b)
FSub(a, b) == RoundF(a - b)
\* x / 2.0f is exact: only the exponent changes.
FHalf(x) == x \div 2

\* (float)M_PI = 13176795 * 2^-22
PiF == 843314880
\* (float)(M_PI / 32.0) = 13176795 * 2^-27
AngleIncrementF == 26353590
\* -1.0f, the "not set" marker of the sweep
MinusOneF == -268435456
\* pi/64 in angle units
HalfStep == 13176795
\* floor(pi * 2^28): the largest angle value that does not exceed pi
PiExact == 843314856

\* Index of the multiple of pi/64 nearest to an angle, in -64 .. 64.
HalfStepOf(angle) == (angle + 6588397) \div HalfStep

\* round(1000 * cos(h * pi / 64)) for h = 0 .. 64
CosTable ==
    << 1000, 999, 995, 989, 981, 970, 957, 942, 924, 904, 882, 858, 831,
       803, 773, 741, 707, 672, 634, 596, 556, 514, 471, 428, 383, 337,
       290, 243, 195, 147, 98, 49, 0, -49, -98, -147, -195, -243, -290,
       -337, -383, -428, -471, -514, -556, -596, -634, -672, -707, -741,
       -773, -803, -831, -858, -882, -904, -924, -942, -957, -970, -981,
       -989, -995, -999, -1000 >>

\* cos and sin of the half-step index h, h in -128 .. 128
CosH(h) == LET a == Abs(h) IN CosTable[(IF a > 64 THEN 128 - a ELSE a) + 1]
SinH(h) == CosH(h - 32)

Cos(angle) == CosH(HalfStepOf(angle))
Sin(angle) == SinH(HalfStepOf(angle))

\* r * c for a length r and a cos/sin value c, rounded to the length unit
MulMilli(r, c) == (r * c + 500) \div 1000

\* static_cast<int>(a / b) for b > 0: truncation toward zero
TruncDiv(a, b) == IF a >= 0 THEN a \div b ELSE -((-a) \div b)

(***************************************************************************)
(* findBestDirection                                                       *)
(***************************************************************************)
\* the default of the free_threshold parameter in place of the literal
LETHAL_FreeThreshold == 5

LETHAL == 253

map_min_x(costmap) == costmap.origin_x
map_max_x(costmap) == costmap.origin_x + costmap.size_x * costmap.resolution
map_min_y(costmap) == costmap.origin_y
map_max_y(costmap) == costmap.origin_y + costmap.size_y * costmap.resolution

\* the bounds test of line 213 is missing: only the cell index is tested
SamplePoint_NoBounds(costmap, pose, h, r) ==
    LET x == pose.x + MulMilli(r, CosH(h))
        y == pose.y + MulMilli(r, SinH(h))
        i == TruncDiv(x - costmap.origin_x, costmap.resolution)
        j == TruncDiv(y - costmap.origin_y, costmap.resolution)
    IN  IF i >= 0 /\ i < costmap.size_x /\ j >= 0 /\ j < costmap.size_y
        THEN IF costmap.data[i + j * costmap.size_x] >= LETHAL
             THEN "lethal" ELSE "ok"
        ELSE "index"

\* One sample point of a ray: "ok" (inside, cell below the lethal value),
\* "lethal", "index" (inside the bounds test but no such cell) or "bounds".
SamplePoint(costmap, pose, h, r) ==
    LET x == pose.x + MulMilli(r, CosH(h))
        y == pose.y + MulMilli(r, SinH(h))
    IN  IF /\ x >= map_min_x(costmap) /\ x <= map_max_x(costmap)
           /\ y >= map_min_y(costmap) /\ y <= map_max_y(costmap)
        THEN LET i == TruncDiv(x - costmap.origin_x, costmap.resolution)
                 j == TruncDiv(y - costmap.origin_y, costmap.resolution)
             IN  IF i >= 0 /\ i < costmap.size_x /\ j >= 0 /\ j < costmap.size_y
                 THEN IF costmap.data[i + j * costmap.size_x] >= LETHAL
                      THEN "lethal" ELSE "ok"
                 ELSE "index"
        ELSE "bounds"

\* The inner loop: for (r = 0; r <= radius; r += resolution), leaving at the
\* first sample that is not ok.
RECURSIVE RaySafeFrom(_, _, _, _, _)
RaySafeFrom(costmap, pose, h, radius, r) ==
    IF r > radius THEN TRUE
    ELSE IF SamplePoint(costmap, pose, h, r) # "ok" THEN FALSE
    ELSE RaySafeFrom(costmap, pose, h, radius, r + costmap.resolution)

is_safe(costmap, pose, angle, radius) ==
    RaySafeFrom(costmap, pose, HalfStepOf(angle), radius, 0)

\* One pass of the outer loop body after the inner loop (the three
\* if-statements), then the loop's increment angle += angle_increment.
TrackRun(s, safe, angle_increment) ==
    LET s1 == IF safe /\ s.first_safe_angle = MinusOneF
              THEN [s EXCEPT !.first_safe_angle = s.angle] ELSE s
        s2 == IF ~safe /\ s1.first_safe_angle # MinusOneF
                       /\ s1.last_unsafe_angle = MinusOneF
              THEN [s1 EXCEPT !.last_unsafe_angle = s.angle] ELSE s1
        s3 == IF /\ FSub(s2.last_unsafe_angle, s2.first_safe_angle)
                      > FSub(s2.final_unsafe_angle, s2.final_safe_angle)
                 /\ s2.first_safe_angle # MinusOneF
                 /\ s2.last_unsafe_angle # MinusOneF
              THEN [s2 EXCEPT !.final_safe_angle   = s2.first_safe_angle,
                              !.final_unsafe_angle = s2.last_unsafe_angle,
                              !.first_safe_angle   = MinusOneF,
                              !.last_unsafe_angle  = MinusOneF]
              ELSE s2
    IN  [s3 EXCEPT !.angle = FAdd(s.angle, angle_increment)]

\* The outer loop: for (angle = start; angle <= end; angle += increment).
RECURSIVE SweepFrom(_, _, _, _, _, _)
SweepFrom(costmap, pose, end_angle, radius, angle_increment, s) ==
    IF s.angle <= end_angle
    THEN SweepFrom(costmap, pose, end_angle, radius, angle_increment,
                   TrackRun(s, is_safe(costmap, pose, s.angle, radius),
                            angle_increment))
    ELSE s

\* the best run starts out as the start angle, like best_angle
SweepStart_FromStartAngle(start_angle) ==
    [angle              |-> start_angle,
     first_safe_angle   |-> MinusOneF,   last_unsafe_angle  |-> MinusOneF,
     final_safe_angle   |-> start_angle, final_unsafe_angle |-> start_angle]

\* The locals of findBestDirection before the loop.
SweepStart(start_angle) ==
    [angle              |-> start_angle,
     first_safe_angle   |-> MinusOneF, last_unsafe_angle  |-> MinusOneF,
     final_safe_angle   |-> 0,         final_unsafe_angle |-> 0]

\* the sum of the two ends of the best run, not halved
findBestDirection_Sum(costmap, pose, start_angle, end_angle, radius, angle_increment) ==
    LET s == SweepFrom(costmap, pose, end_angle, radius, angle_increment,
                       SweepStart(start_angle))
    IN  FAdd(s.final_safe_angle, s.final_unsafe_angle)

findBestDirection(costmap, pose, start_angle, end_angle, radius, angle_increment) ==
    LET s == SweepFrom(costmap, pose, end_angle, radius, angle_increment,
                       SweepStart(start_angle))
    IN  FHalf(FAdd(s.final_safe_angle, s.final_unsafe_angle))

(***************************************************************************)
(* State                                                                   *)
(***************************************************************************)
VARIABLES
    \* the world
    grid,                     \* the costmap the grid service answers with
    clock,                    \* clock_->now()
    service_ready,            \* the grid service is available
    rclcpp_ok,                \* rclcpp::ok()
    \* configuration (onConfigure)
    robot_radius_, max_radius_, free_threshold_, visualize_,
    \* the maneuver (written by onRun, read by onCycleUpdate)
    initial_pose_, twist_x_, twist_y_, command_x_,
    command_time_allowance_, end_time_,
    feedback_distance_traveled,   \* feedback_->distance_traveled
    \* control
    state,                    \* lifecycle / maneuver state, see States
    command,                  \* the goal of the maneuver in progress
    goal_count,               \* goals accepted so far
    best_angle,               \* the heading onRun chose for this maneuver
    \* what the most recent handler call did
    ret,                      \* the status it returned
    out,                      \* what it published, in order
    run,                      \* its locals, if it was onRun
    cyc                       \* its locals, if it was onCycleUpdate

world  == <<grid, clock, service_ready, rclcpp_ok>>
config == <<robot_radius_, max_radius_, free_threshold_, visualize_>>
fields == <<initial_pose_, twist_x_, twist_y_, command_x_,
            command_time_allowance_, end_time_>>
vars   == <<grid, clock, service_ready, rclcpp_ok,
            robot_radius_, max_radius_, free_threshold_, visualize_,
            initial_pose_, twist_x_, twist_y_, command_x_,
            command_time_allowance_, end_time_, feedback_distance_traveled,
            state, command, goal_count, best_angle, ret, out, run, cyc>>

States == {"UNCONFIGURED", "CONFIGURED", "WAIT_SERVICE", "RUNNING",
           "SUCCEEDED", "FAILED", "CRASHED"}

(***************************************************************************)
(* Bounds and input sets                                                   *)
(***************************************************************************)
\* the clock stops advancing here
MaxTime == 3
\* goals accepted in one behaviour
MaxGoals == 1
\* most lethal cells in a costmap of the sweep's input family
MaxLethal == 3

Cell(i, j, size_x) == i + j * size_x

FreeMap(n) ==
    [resolution |-> 1000, origin_x |-> 0, origin_y |-> 0,
     size_x |-> n, size_y |-> n, data |-> [c \in 0 .. n * n - 1 |-> 0]]

WithCells(costmap, cells, value) ==
    [costmap EXCEPT !.data = [c \in DOMAIN costmap.data |->
                                 IF c \in cells THEN value ELSE costmap.data[c]]]

\* the eight cells around the centre cell of the 5 x 5 map
InnerRing == { Cell(i, j, 5) : i \in 1 .. 3, j \in 1 .. 3 } \ { Cell(2, 2, 5) }

\* the two columns on the x > centre side of the 5 x 5 map
EastWall == { Cell(i, j, 5) : i \in 3 .. 4, j \in 0 .. 4 }

\* the cells west, south and east of the centre cell
ThreeObstacles == { Cell(1, 2, 5), Cell(2, 1, 5), Cell(3, 2, 5) }

\* an empty 3 x 3 map whose origin is not the origin of the frame
OffsetMap ==
    [resolution |-> 1000, origin_x |-> 1500, origin_y |-> 1500,
     size_x |-> 3, size_y |-> 3, data |-> [c \in 0 .. 8 |-> 0]]

\* Input family of the sweep: 5 x 5 maps with up to MaxLethal lethal cells
\* around the centre, maps of cost 252 with one cell of cost 255, the map
\* with a wall on the side of angle 0, an empty 4 x 4 map and the offset map.
Costmaps ==
    { WithCells(FreeMap(5), cells, 253) :
          cells \in { c \in SUBSET InnerRing : Cardinality(c) <= MaxLethal } }
    \cup { WithCells(WithCells(FreeMap(5), InnerRing, 252), {c}, 255) :
              c \in InnerRing }
    \cup { WithCells(FreeMap(5), EastWall, 254), FreeMap(4), OffsetMap }

\* Input family of the maneuver.
ManeuverCostmaps ==
    { FreeMap(5), FreeMap(4), WithCells(FreeMap(5), ThreeObstacles, 253) }

Pose(x, y) == [x |-> x, y |-> y]
\* geometry_msgs identity pose
IdentityPose == Pose(0, 0)
\* what the pose service may answer
Poses == { Pose(2500, 2500), Pose(2200, 2200), Pose(2800, 2900) }

Goals ==
    [speed : {250}, target_x : {-500, 500}, time_allowance : {0, 2}]
RunGoals ==
    [speed : {250}, target_x : {-500}, time_allowance : {2}]
\* goals without a deadline: a zero and a negative time allowance
NoDeadlineGoals ==
    [speed : {250}, target_x : {-500, 500}, time_allowance : {0, -1}]

\* parameter values onConfigure may read
RobotRadii == {100, 3000}
MaxRadii   == {2000}
Thresholds == {5, 200}

NoCommand == [speed |-> 0, target_x |-> 0, time_allowance |-> 0]
NoRun == [called |-> FALSE, answered |-> FALSE, pose1_ok |-> FALSE,
          pose2_ok |-> FALSE, swept |-> FALSE, pose |-> IdentityPose,
          origin |-> IdentityPose]
NoCyc == [pose_ok |-> FALSE, current_pose |-> IdentityPose,
          collision |-> "not_run"]

StopCmd == [kind |-> "cmd_vel", x |-> 0, y |-> 0]
MotionCmd(x, y) == [kind |-> "cmd_vel", x |-> x, y |-> y]
Feedback(d) == [kind |-> "feedback", distance_traveled |-> d]

(***************************************************************************)
(* Init: the object after construction, in some world                      *)
(***************************************************************************)
InitIn(costmaps) ==
    /\ grid \in costmaps
    /\ clock = 0
    /\ service_ready = FALSE
    /\ rclcpp_ok = TRUE
    /\ robot_radius_ = 0 /\ max_radius_ = 0 /\ free_threshold_ = 0
    /\ visualize_ = FALSE
    /\ initial_pose_ = IdentityPose
    /\ twist_x_ = 0 /\ twist_y_ = 0 /\ command_x_ = 0
    /\ command_time_allowance_ = 0 /\ end_time_ = 0
    /\ feedback_distance_traveled = 0
    /\ state = "UNCONFIGURED"
    /\ command = NoCommand
    /\ goal_count = 0
    /\ best_angle = 0
    /\ ret = "NONE"
    /\ out = <<>>
    /\ run = NoRun
    /\ cyc = NoCyc

Init == InitIn(ManeuverCostmaps)

(***************************************************************************)
(* The world                                                               *)
(***************************************************************************)
\* Time is read by onRun and onCycleUpdate only; it passes while a goal
\* can still arrive or is being served.
Tick ==
    /\ state \in {"CONFIGURED", "WAIT_SERVICE", "RUNNING"}
    /\ clock < MaxTime
    /\ clock' = clock + 1
    /\ UNCHANGED <<grid, service_ready, rclcpp_ok, config, fields,
                   feedback_distance_traveled, state, command, goal_count,
                   best_angle, ret, out, run, cyc>>

GridServiceStarts ==
    /\ ~service_ready
    /\ service_ready' = TRUE
    /\ UNCHANGED <<grid, clock, rclcpp_ok, config, fields,
                   feedback_distance_traveled, state, command, goal_count,
                   best_angle, ret, out, run, cyc>>

\* rclcpp::ok() is read only by the wait loop of onRun; a shutdown at any
\* other moment ends the process outside this class.
Shutdown ==
    /\ state = "WAIT_SERVICE"
    /\ rclcpp_ok
    /\ rclcpp_ok' = FALSE
    /\ UNCHANGED <<grid, clock, service_ready, config, fields,
                   feedback_distance_traveled, state, command, goal_count,
                   best_angle, ret, out, run, cyc>>

(***************************************************************************)
(* onConfigure                                                             *)
(***************************************************************************)
\* max_radius_ is left as configured
AdjustMaxRadius_Unclamped(robot_radius, max_radius) == max_radius

\* max_radius_ after the adjustment of lines 45-48
AdjustMaxRadius(robot_radius, max_radius) ==
    IF max_radius < robot_radius THEN robot_radius ELSE max_radius

onConfigureWith(radii, maxRadii, thresholds, flags) ==
    /\ state = "UNCONFIGURED"
    /\ goal_count < MaxGoals
    /\ \E node_ok \in BOOLEAN, rr \in radii, mr \in maxRadii,
          ft \in thresholds, vis \in flags :
          IF ~node_ok
          THEN \* node_.lock() failed: std::runtime_error
               /\ ret' = "THROWN"
               /\ UNCHANGED <<config, state>>
          ELSE /\ robot_radius_' = rr
               /\ max_radius_' = AdjustMaxRadius(rr, mr)
               /\ free_threshold_' = ft
               /\ visualize_' = vis
               /\ state' = "CONFIGURED"
               /\ ret' = "NONE"
    /\ out' = <<>>
    /\ run' = NoRun
    /\ cyc' = NoCyc
    /\ UNCHANGED <<world, fields, feedback_distance_traveled, command,
                   goal_count, best_angle>>

\* every parameter value of the model
onConfigure == onConfigureWith(RobotRadii, MaxRadii, Thresholds, BOOLEAN)
\* robot_radius 0.1, max_radius 2.0, free_threshold 5, visualize true
onConfigure_Visualize == onConfigureWith({100}, {2000}, {5}, {TRUE})

(***************************************************************************)
(* onCleanup                                                               *)
(***************************************************************************)
onCleanup ==
    /\ state \in {"CONFIGURED", "SUCCEEDED", "FAILED"}
    /\ state' = "UNCONFIGURED"
    /\ ret' = "NONE"
    /\ out' = <<>>
    /\ run' = NoRun
    /\ cyc' = NoCyc
    /\ UNCHANGED <<world, config, fields, feedback_distance_traveled,
                   command, goal_count, best_angle>>

(***************************************************************************)
(* onRun                                                                   *)
(***************************************************************************)
\* The handler is entered with a goal and reaches the head of the
\* wait_for_service loop.
onRun_CallWithin(goals, limit) ==
    /\ state \in {"CONFIGURED", "SUCCEEDED", "FAILED"}
    /\ goal_count < limit
    /\ goal_count' = goal_count + 1
    /\ \E cmd \in goals : command' = cmd
    /\ state' = "WAIT_SERVICE"
    /\ ret' = "NONE"
    /\ out' = <<>>
    /\ run' = NoRun
    /\ cyc' = NoCyc
    /\ UNCHANGED <<world, config, fields, feedback_distance_traveled,
                   best_angle>>

onRun_CallWith(goals) == onRun_CallWithin(goals, MaxGoals)

onRun_Call == onRun_CallWith(Goals)
\* one goal more, for a maneuver that follows another
onRun_Call_Again == onRun_CallWithin(Goals, MaxGoals + 1)
onRun_Call_OneGoal == onRun_CallWith(RunGoals)
onRun_Call_NoDeadline == onRun_CallWith(NoDeadlineGoals)

\* the second pose fetch goes unchecked
RunStatus_OneFetch(answered, pose1_ok, pose2_ok) ==
    IF ~answered THEN "FAILED"
    ELSE IF ~pose1_ok THEN "FAILED"
    ELSE "SUCCEEDED"

\* The status onRun returns once the service has been found: FAILED at the
\* first of the three checks (lines 83, 91, 114) that fails.
RunStatus(answered, pose1_ok, pose2_ok) ==
    IF ~answered THEN "FAILED"
    ELSE IF ~pose1_ok THEN "FAILED"
    ELSE IF ~pose2_ok THEN "FAILED"
    ELSE "SUCCEEDED"

\* onRun returns: SUCCEEDED lets the behavior server start the cycle updates.
onRun_Return(status) ==
    /\ ret' = status
    /\ state' = IF status = "SUCCEEDED" THEN "RUNNING" ELSE "FAILED"

\* A failed nav2_util::getCurrentPose leaves its out-parameter either
\* untouched or reset to the identity pose.
FailedFetch(old) == {old, IdentityPose}

\* visualizeline publishes through marker_pub_line_, which onConfigure
\* creates only when visualize_ is set: otherwise a null pointer is
\* dereferenced, and the process either dies there or carries on.
VisualizeLineOutcomes ==
    IF visualize_ THEN {"published"} ELSE {"crash", "continue"}

\* The call of line 104, findBestDirection(costmap, pose, -M_PI, M_PI,
\* max_radius_, M_PI / 32.0), tabulated over the inputs of the model.
BestDirection ==
    [costmap \in Costmaps \cup ManeuverCostmaps, pose \in Poses,
     radius \in { AdjustMaxRadius(rr, mr) : rr \in RobotRadii, mr \in MaxRadii } |->
        findBestDirection(costmap, pose, -PiF, PiF, radius, AngleIncrementF)]

\* the allowance and the deadline are stored only for a positive allowance
onRun_Body_KeepsDeadline ==
    \E answered \in BOOLEAN, pose1_ok \in BOOLEAN, p1 \in Poses :
      LET status(pose2_ok) == RunStatus(answered, pose1_ok, pose2_ok)
      IN
      IF ~answered
      THEN /\ onRun_Return(status(FALSE))
           /\ run' = [NoRun EXCEPT !.called = TRUE]
           /\ UNCHANGED <<fields, best_angle>>
      ELSE IF ~pose1_ok
      THEN /\ onRun_Return(status(FALSE))
           /\ initial_pose_' \in FailedFetch(initial_pose_)
           /\ run' = [NoRun EXCEPT !.called = TRUE, !.answered = TRUE]
           /\ UNCHANGED <<twist_x_, twist_y_, command_x_,
                          command_time_allowance_, end_time_, best_angle>>
      ELSE LET pose == Pose(p1.x, p1.y)
               best == BestDirection[grid, pose, max_radius_]
           IN  \E ub \in VisualizeLineOutcomes, pose2_ok \in BOOLEAN, p2 \in Poses :
                 IF ub = "crash"
                 THEN /\ state' = "CRASHED"
                      /\ ret' = "NONE"
                      /\ initial_pose_' = p1
                      /\ run' = [NoRun EXCEPT !.called = TRUE, !.answered = TRUE,
                                              !.pose1_ok = TRUE, !.pose = pose]
                      /\ UNCHANGED <<twist_x_, twist_y_, command_x_,
                                     command_time_allowance_, end_time_,
                                     best_angle>>
                 ELSE /\ best_angle' = best
                      /\ twist_x_' = Cos(best) * command.speed
                      /\ twist_y_' = Sin(best) * command.speed
                      /\ command_x_' = command.target_x
                      /\ IF command.time_allowance > 0
                         THEN /\ command_time_allowance_' = command.time_allowance
                              /\ end_time_' = clock + command.time_allowance
                         ELSE UNCHANGED <<command_time_allowance_, end_time_>>
                      /\ run' = [called |-> TRUE, answered |-> TRUE,
                                 pose1_ok |-> TRUE, pose2_ok |-> pose2_ok,
                                 swept |-> TRUE, pose |-> pose,
                                 origin |-> IF pose2_ok THEN p2
                                            ELSE IdentityPose]
                      /\ initial_pose_' \in
                            IF pose2_ok THEN {p2} ELSE FailedFetch(p1)
                      /\ onRun_Return(status(pose2_ok))

\* Lines 81-129, once the service is available.
onRun_Body ==
    \E answered \in BOOLEAN, pose1_ok \in BOOLEAN, p1 \in Poses :
      LET status(pose2_ok) == RunStatus(answered, pose1_ok, pose2_ok)
      IN
      IF ~answered
      THEN /\ onRun_Return(status(FALSE))
           /\ run' = [NoRun EXCEPT !.called = TRUE]
           /\ UNCHANGED <<fields, best_angle>>
      ELSE IF ~pose1_ok
      THEN /\ onRun_Return(status(FALSE))
           /\ initial_pose_' \in FailedFetch(initial_pose_)
           /\ run' = [NoRun EXCEPT !.called = TRUE, !.answered = TRUE]
           /\ UNCHANGED <<twist_x_, twist_y_, command_x_,
                          command_time_allowance_, end_time_, best_angle>>
      ELSE LET pose == Pose(p1.x, p1.y)
               best == BestDirection[grid, pose, max_radius_]
           IN  \E ub \in VisualizeLineOutcomes, pose2_ok \in BOOLEAN, p2 \in Poses :
                 IF ub = "crash"
                 THEN /\ state' = "CRASHED"
                      /\ ret' = "NONE"
                      /\ initial_pose_' = p1
                      /\ run' = [NoRun EXCEPT !.called = TRUE, !.answered = TRUE,
                                              !.pose1_ok = TRUE, !.pose = pose]
                      /\ UNCHANGED <<twist_x_, twist_y_, command_x_,
                                     command_time_allowance_, end_time_,
                                     best_angle>>
                 ELSE /\ best_angle' = best
                      /\ twist_x_' = Cos(best) * command.speed
                      /\ twist_y_' = Sin(best) * command.speed
                      /\ command_x_' = command.target_x
                      /\ command_time_allowance_' = command.time_allowance
                      /\ end_time_' = clock + command.time_allowance
                      /\ run' = [called |-> TRUE, answered |-> TRUE,
                                 pose1_ok |-> TRUE, pose2_ok |-> pose2_ok,
                                 swept |-> TRUE, pose |-> pose,
                                 origin |-> IF pose2_ok THEN p2
                                            ELSE IdentityPose]
                      /\ initial_pose_' \in
                            IF pose2_ok THEN {p2} ELSE FailedFetch(p1)
                      /\ onRun_Return(status(pose2_ok))

\* One turn of the loop "while (!wait_for_service(1s))", and, when the
\* service is there, the rest of the handler.
onRun_Wait ==
    /\ state = "WAIT_SERVICE"
    /\ IF service_ready
       THEN onRun_Body
       ELSE IF ~rclcpp_ok
       THEN /\ onRun_Return("FAILED")
            /\ run' = NoRun
            /\ UNCHANGED <<fields, best_angle>>
       ELSE \* "service not available, waiting again..."
            UNCHANGED <<fields, best_angle, run, ret, state>>
    /\ out' = <<>>
    /\ UNCHANGED <<world, config, feedback_distance_traveled, command,
                   goal_count, cyc>>

(***************************************************************************)
(* onCycleUpdate                                                           *)
(***************************************************************************)
\* floor of the square root, by bisection on lo <= root < hi
RECURSIVE SqrtBetween(_, _, _)
SqrtBetween(n, lo, hi) ==
    IF hi - lo <= 1 THEN lo
    ELSE LET mid == (lo + hi) \div 2
         IN  IF mid * mid <= n THEN SqrtBetween(n, mid, hi)
                               ELSE SqrtBetween(n, lo, mid)

\* the distance along x only
hypot_OneAxis(diff_x, diff_y) == Abs(diff_x)

hypot(diff_x, diff_y) ==
    SqrtBetween(diff_x * diff_x + diff_y * diff_y, 0, 32768)

\* nav2 stopRobot(): publishes a zero velocity command
stopRobot(published) == Append(published, StopCmd)

\* the allowance is not tested
TimedOut_AnyAllowance(time_remaining) == time_remaining < 0

\* the allowance is tested with the wrong sign
TimedOut_WrongSign(time_remaining) ==
    time_remaining < 0 /\ command_time_allowance_ < 0

\* the deadline is missed by a whole second before it counts
TimedOut_Late(time_remaining) ==
    time_remaining < -1 /\ command_time_allowance_ > 0

\* line 135
TimedOut(time_remaining) ==
    time_remaining < 0 /\ command_time_allowance_ > 0

\* the signed target, without fabs
TargetReached_Signed(distance) == distance >= command_x_

\* line 158
TargetReached(distance) == distance >= Abs(command_x_)

\* the target test comes before the deadline test
CycleExit_TargetFirst(time_remaining, pose_ok, distance, collision_free) ==
    IF pose_ok /\ TargetReached(distance) THEN "reached"
    ELSE IF TimedOut(time_remaining) THEN "timeout"
    ELSE IF ~pose_ok THEN "no_pose"
    ELSE IF ~collision_free THEN "collision"
    ELSE "continue"

\* The return statement the call leaves by.
CycleExit(time_remaining, pose_ok, distance, collision_free) ==
    IF TimedOut(time_remaining) THEN "timeout"
    ELSE IF ~pose_ok THEN "no_pose"
    ELSE IF TargetReached(distance) THEN "reached"
    ELSE IF ~collision_free THEN "collision"
    ELSE "continue"

\* the pose-unavailable exit stops the robot
CyclePublishes_StopWithoutPose(exit, distance) ==
    CASE exit = "timeout"   -> stopRobot(<<>>)
      [] exit = "no_pose"   -> stopRobot(<<>>)
      [] exit = "reached"   -> stopRobot(<<Feedback(distance)>>)
      [] exit = "collision" -> stopRobot(<<Feedback(distance)>>)
      [] exit = "continue"  -> <<Feedback(distance), MotionCmd(twist_x_, twist_y_)>>

\* the motion command is published before the feedback
CyclePublishes_MotionFirst(exit, distance) ==
    CASE exit = "timeout"   -> stopRobot(<<>>)
      [] exit = "no_pose"   -> <<>>
      [] exit = "reached"   -> stopRobot(<<Feedback(distance)>>)
      [] exit = "collision" -> stopRobot(<<Feedback(distance)>>)
      [] exit = "continue"  -> <<MotionCmd(twist_x_, twist_y_), Feedback(distance)>>

\* the collision exit publishes the motion command before it fails
CyclePublishes_KeepsMoving(exit, distance) ==
    CASE exit = "timeout"   -> stopRobot(<<>>)
      [] exit = "no_pose"   -> <<>>
      [] exit = "reached"   -> stopRobot(<<Feedback(distance)>>)
      [] exit \in {"collision", "continue"} ->
             <<Feedback(distance), MotionCmd(twist_x_, twist_y_)>>

\* What is published on the way to each return statement.
CyclePublishes(exit, distance) ==
    CASE exit = "timeout"   -> stopRobot(<<>>)
      [] exit = "no_pose"   -> <<>>
      [] exit = "reached"   -> stopRobot(<<Feedback(distance)>>)
      [] exit = "collision" -> stopRobot(<<Feedback(distance)>>)
      [] exit = "continue"  -> <<Feedback(distance), MotionCmd(twist_x_, twist_y_)>>

CycleStatus(exit) ==
    CASE exit = "timeout"   -> "FAILED"
      [] exit = "no_pose"   -> "FAILED"
      [] exit = "reached"   -> "SUCCEEDED"
      [] exit = "collision" -> "FAILED"
      [] exit = "continue"  -> "RUNNING"

onCycleUpdate ==
    /\ state = "RUNNING"
    /\ \E pose_ok \in BOOLEAN, p \in Poses, collision_free \in BOOLEAN :
         LET time_remaining == end_time_ - clock
             diff_x == initial_pose_.x - p.x
             diff_y == initial_pose_.y - p.y
             distance == hypot(diff_x, diff_y)
             exit == CycleExit(time_remaining, pose_ok, distance, collision_free)
         IN  /\ out' = CyclePublishes(exit, distance)
             /\ ret' = CycleStatus(exit)
             /\ feedback_distance_traveled' =
                    IF exit \in {"timeout", "no_pose"}
                    THEN feedback_distance_traveled ELSE distance
             /\ cyc' = IF exit \in {"timeout", "no_pose"} THEN NoCyc
                       ELSE [pose_ok |-> TRUE, current_pose |-> p,
                             collision |->
                                 IF exit = "reached" THEN "not_run"
                                 ELSE IF collision_free THEN "free"
                                 ELSE "blocked"]
    /\ state' = ret'
    /\ run' = NoRun
    /\ UNCHANGED <<world, config, fields, command, goal_count, best_angle>>

(***************************************************************************)
(* Specifications                                                          *)
(***************************************************************************)
\* The whole maneuver, under one configuration that has the marker publishers.
Next ==
    \/ Tick
    \/ GridServiceStarts
    \/ Shutdown
    \/ onConfigure_Visualize
    \/ onCleanup
    \/ onRun_Call
    \/ onRun_Wait
    \/ onCycleUpdate

Spec == Init /\ [][Next]_vars

\* The behavior server keeps calling: the wait loop of onRun keeps turning,
\* cycle updates keep coming while RUNNING, and the clock keeps advancing.
FairSpec ==
    Spec /\ WF_vars(onRun_Wait) /\ WF_vars(onCycleUpdate) /\ WF_vars(Tick)

\* Configuration and Run entry, over every costmap and parameter value.
RunInit == InitIn(Costmaps)

RunNext ==
    \/ GridServiceStarts
    \/ Shutdown
    \/ onConfigure
    \/ onRun_Call_OneGoal
    \/ onRun_Wait

RunSpec == RunInit /\ [][RunNext]_vars

\* The whole maneuver, for goals without a deadline.
NoDeadlineNext ==
    \/ Tick
    \/ GridServiceStarts
    \/ Shutdown
    \/ onConfigure_Visualize
    \/ onCleanup
    \/ onRun_Call_NoDeadline
    \/ onRun_Wait
    \/ onCycleUpdate

NoDeadlineSpec == Init /\ [][NoDeadlineNext]_vars

\* Two maneuvers in a row, on the map with three obstacles.
AgainInit == InitIn({ WithCells(FreeMap(5), ThreeObstacles, 253) })

AgainNext ==
    \/ Tick
    \/ GridServiceStarts
    \/ onConfigure_Visualize
    \/ onRun_Call_Again
    \/ onRun_Wait
    \/ onCycleUpdate

AgainSpec == AgainInit /\ [][AgainNext]_vars

(***************************************************************************)
(* The sweep, as the claims describe it                                    *)
(***************************************************************************)
\* The candidate headings of the sweep of line 104, in the order visited.
RECURSIVE AnglesFrom(_)
AnglesFrom(angle) ==
    IF angle <= PiF
    THEN <<angle>> \o AnglesFrom(FAdd(angle, AngleIncrementF))
    ELSE <<>>

SweepAngles == AnglesFrom(-PiF)
NumAngles == Len(SweepAngles)

\* The candidates that onRun's sweep found safe, for the costmap, pose and
\* radius of the call.
SafeSet ==
    { k \in 1 .. NumAngles :
        is_safe(grid, run.pose, SweepAngles[k], max_radius_) }

\* The maximal runs of consecutive safe candidates, as <<first, last>>.
RunsOf(S) ==
    { r \in (1 .. NumAngles) \X (1 .. NumAngles) :
        /\ r[1] <= r[2]
        /\ \A k \in r[1] .. r[2] : k \in S
        /\ (r[1] - 1) \notin S
        /\ (r[2] + 1) \notin S }

Width(r) == r[2] - r[1]

\* The heading is the midpoint of the run: of its first and last safe
\* candidate, or of its first safe candidate and the candidate after its last.
\* Candidate k is the multiple 2 * k - 66 of pi/64.
IsMidpointOf(angle, r) ==
    HalfStepOf(angle) \in { r[1] + r[2] - 66, r[1] + r[2] - 65 }

\* C1: onRun's sweep returns the midpoint of the widest maximal run of safe
\* candidates, the first such run when several are equally wide.
C1_WidestRunChosen ==
    run.swept =>
        LET runs == RunsOf(SafeSet)
        IN  runs # {} =>
              \E r \in runs :
                 /\ \A q \in runs : Width(q) <= Width(r)
                 /\ \A q \in runs : Width(q) = Width(r) => r[1] <= q[1]
                 /\ IsMidpointOf(best_angle, r)

\* The safe candidates form one arc of the circle of NumAngles candidates,
\* starting at candidate a, and some candidate is unsafe.
IsArcFrom(S, a) ==
    /\ a \in S
    /\ Cardinality(S) < NumAngles
    /\ (((a + NumAngles - 2) % NumAngles) + 1) \notin S
    /\ S = { ((a - 1 + d) % NumAngles) + 1 : d \in 0 .. Cardinality(S) - 1 }

\* distance of two half-step indices around the circle of 128 half steps
CircDist(x, y) ==
    LET d == (x - y) % 128 IN IF d <= 64 THEN d ELSE 128 - d

\* C2: when exactly one arc of the circle is free, the heading returned lies
\* inside the arc (before the first unsafe candidate after it) and within
\* one angle step of the arc's midpoint, also when the arc reaches across
\* the +/-pi end of the sweep.
C2_SingleArcMidpoint ==
    run.swept =>
        LET S == SafeSet
        IN  \A a \in 1 .. NumAngles :
              IsArcFrom(S, a) =>
                 LET first == 2 * (a - 1)
                     n     == Cardinality(S)
                     h     == (HalfStepOf(best_angle) + 64) % 128
                 IN  /\ CircDist(h, (first + n - 1) % 128) <= 2
                     /\ (h - first) % 128 <= 2 * (n - 1) + 1

\* squared distance from a pose to the nearest point of cell c
CellDistanceSq(costmap, pose, c) ==
    LET lo_x == costmap.origin_x + (c % costmap.size_x) * costmap.resolution
        lo_y == costmap.origin_y + (c \div costmap.size_x) * costmap.resolution
        dx == IF pose.x < lo_x THEN lo_x - pose.x
              ELSE IF pose.x > lo_x + costmap.resolution
              THEN pose.x - lo_x - costmap.resolution ELSE 0
        dy == IF pose.y < lo_y THEN lo_y - pose.y
              ELSE IF pose.y > lo_y + costmap.resolution
              THEN pose.y - lo_y - costmap.resolution ELSE 0
    IN  dx * dx + dy * dy

NoLethalWithin(costmap, pose, radius) ==
    \A c \in DOMAIN costmap.data :
        costmap.data[c] >= 253 =>
            CellDistanceSq(costmap, pose, c) > radius * radius

\* C3: with no lethal cell within the search radius, and some candidate of
\* the sweep safe, every sample point along the returned heading is inside
\* the grid and on a non-lethal cell.
C3_ReturnedHeadingSafe ==
    (/\ run.swept
     /\ NoLethalWithin(grid, run.pose, max_radius_)
     /\ SafeSet # {})
    => RaySafeFrom(grid, run.pose, HalfStepOf(best_angle), max_radius_, 0)

(***************************************************************************)
(* The cycle updates, as the claims describe them                          *)
(***************************************************************************)
\* squared Euclidean distance between two poses
DistSq(a, b) == (a.x - b.x) * (a.x - b.x) + (a.y - b.y) * (a.y - b.y)

\* the most recent handler call published feedback
PublishedFeedback(published) ==
    published # <<>> /\ published[1].kind = "feedback"

\* the velocity commands among what was published
VelocityCommands(published) ==
    SelectSeq(published, LAMBDA m : m.kind = "cmd_vel")

\* a step of onCycleUpdate: the only step out of RUNNING that is not the clock
CycleStep == state = "RUNNING" /\ clock' = clock /\ vars' # vars

\* C4: a cycle update returns SUCCEEDED only when the distance between the
\* reference origin and the pose read in that cycle is at least |target|,
\* and returns RUNNING only when that distance is below |target|, whatever
\* the sign of the target.
C4_SuccessOnlyAtTarget ==
    /\ state = "SUCCEEDED" =>
          /\ cyc.pose_ok
          /\ DistSq(initial_pose_, cyc.current_pose)
                >= command.target_x * command.target_x
    /\ (state = "RUNNING" /\ cyc.pose_ok) =>
          DistSq(initial_pose_, cyc.current_pose)
                < command.target_x * command.target_x

C4_Witness ==
    /\ state = "SUCCEEDED"
    /\ command.target_x < 0
    /\ cyc.pose_ok
    /\ DistSq(initial_pose_, cyc.current_pose) > 0

\* C5 as stated: the distances published as feedback by successive cycle
\* updates of one maneuver never decrease.
C5_FeedbackMonotonic ==
    [][ (state = "RUNNING" /\ PublishedFeedback(out) /\ PublishedFeedback(out'))
          => out'[1].distance_traveled >= out[1].distance_traveled ]_vars

\* C5 amended: each distance published as feedback is the Euclidean distance
\* (in whole millimetres) between the reference origin and the pose read in
\* that cycle, so that successive values do not decrease whenever the later
\* pose is no nearer to the reference origin than the earlier one.
C5_FeedbackIsDistance ==
    /\ [](PublishedFeedback(out) =>
            LET d == out[1].distance_traveled
                n == DistSq(initial_pose_, cyc.current_pose)
            IN  /\ d >= 0
                /\ d * d <= n
                /\ n < (d + 1) * (d + 1)
                /\ feedback_distance_traveled = d)
    /\ [][ (/\ state = "RUNNING"
            /\ PublishedFeedback(out) /\ PublishedFeedback(out')
            /\ DistSq(initial_pose_, cyc'.current_pose)
                  >= DistSq(initial_pose_, cyc.current_pose))
          => out'[1].distance_traveled >= out[1].distance_traveled ]_vars

C5_Witness ==
    /\ state = "RUNNING"
    /\ PublishedFeedback(out)
    /\ out[1].distance_traveled > 0
    /\ cyc.current_pose # initial_pose_

\* C6 as stated: whatever the time allowance, no maneuver succeeds once its
\* deadline has passed.
C6_NoSuccessAfterDeadline ==
    state = "SUCCEEDED" => clock <= end_time_

\* C6 amended: for every positive time allowance, the deadline is the time
\* of the Run entry plus the allowance, a cycle update that runs after the
\* deadline stops the robot and returns FAILED, and no maneuver succeeds
\* once its deadline has passed.
C6_TimeoutFails ==
    /\ []((state = "SUCCEEDED" /\ command.time_allowance > 0)
            => clock <= end_time_)
    /\ [][ (state = "WAIT_SERVICE" /\ state' = "RUNNING")
            => end_time_' = clock + command.time_allowance ]_vars
    /\ [][ (CycleStep /\ command.time_allowance > 0 /\ clock > end_time_)
            => (state' = "FAILED" /\ ret' = "FAILED" /\ out' = <<StopCmd>>) ]_vars

C6_Witness ==
    /\ state = "FAILED"
    /\ out = <<StopCmd>>
    /\ command.time_allowance > 0
    /\ clock > end_time_

\* C7: a cycle update whose collision check reports the lookahead unsafe
\* publishes no motion command: the one velocity command it writes is the
\* stop command, and it returns FAILED.
C7_CollisionStops ==
    cyc.collision = "blocked" =>
        /\ ret = "FAILED"
        /\ state = "FAILED"
        /\ VelocityCommands(out) = <<StopCmd>>

C7_Witness ==
    /\ cyc.collision = "blocked"
    /\ state = "FAILED"
    /\ PublishedFeedback(out)

\* every heading findBestDirection returns to onRun is within [-pi, pi]
HeadingsInRange ==
    \A t \in DOMAIN BestDirection :
        -PiExact <= BestDirection[t] /\ BestDirection[t] <= PiExact

\* C8: the heading onRun chooses lies in [-pi, pi]; the velocity stored at
\* Run entry is speed * (cos(heading), sin(heading)); every motion command
\* a cycle update publishes is that velocity, and no cycle update changes
\* the stored velocity, target, allowance, deadline or reference origin.
C8_HeadingFixed ==
    /\ [](/\ HeadingsInRange
          /\ -PiExact <= best_angle /\ best_angle <= PiExact
          /\ state = "RUNNING" =>
                /\ twist_x_ = Cos(best_angle) * command.speed
                /\ twist_y_ = Sin(best_angle) * command.speed)
    /\ [][ CycleStep =>
            /\ UNCHANGED <<fields, best_angle>>
            /\ \A i \in 1 .. Len(out') :
                  (out'[i].kind = "cmd_vel" /\ out'[i] # StopCmd) =>
                      out'[i] = MotionCmd(Cos(best_angle) * command.speed,
                                          Sin(best_angle) * command.speed) ]_vars

C8_Witness ==
    /\ state = "RUNNING"
    /\ best_angle # 0
    /\ Len(out) = 2
    /\ out[2].kind = "cmd_vel"
    /\ out[2] # StopCmd

\* C9: a Run entry that is waiting for the grid service always leaves the
\* wait, also when the service never becomes available and no shutdown is
\* requested.
C9_WaitEnds ==
    (state = "WAIT_SERVICE") ~> (state # "WAIT_SERVICE" \/ service_ready)

\* C10: each failure during the Run entry makes onRun return FAILED without
\* entering RUNNING or publishing anything, and onRun reports success only
\* when the grid request was answered and both pose fetches succeeded.
C10_RunEntryFailures ==
    /\ state = "RUNNING" =>
          (ret = "SUCCEEDED" /\ run.answered /\ run.pose1_ok /\ run.pose2_ok)
    /\ ret = "SUCCEEDED" => state = "RUNNING"
    /\ (/\ run.called
        /\ state # "CRASHED"
        /\ ~(run.answered /\ run.pose1_ok /\ run.pose2_ok))
          => (ret = "FAILED" /\ state = "FAILED")
    /\ (~rclcpp_ok /\ ~service_ready) => state \in {"WAIT_SERVICE", "FAILED"}
    /\ state \in {"FAILED", "RUNNING"} => out = <<>>
    /\ state = "FAILED" => ret = "FAILED"

C10_Witness ==
    /\ state = "FAILED"
    /\ run.answered
    /\ run.pose1_ok
    /\ ~run.pose2_ok

(***************************************************************************)
(* Termination, feedback, configuration                                    *)
(***************************************************************************)
Terminal == {"SUCCEEDED", "FAILED"}

\* C11: while the clock keeps advancing and cycle updates keep coming, a
\* maneuver that is RUNNING with a positive time allowance (and a deadline
\* the clock of the model can pass) reaches SUCCEEDED or FAILED, whatever
\* the poses and collision results.
C11_ManeuverEnds ==
    (state = "RUNNING" /\ command.time_allowance > 0 /\ end_time_ < MaxTime)
        ~> (state \in Terminal)

C11_Witness ==
    /\ state \in Terminal
    /\ command.time_allowance > 0
    /\ end_time_ < MaxTime
    /\ clock = MaxTime
    /\ ret = "FAILED"
    /\ cyc = NoCyc
    /\ VelocityCommands(out) = <<StopCmd>>

\* the feedback messages among what was published
FeedbackMessages(published) ==
    SelectSeq(published, LAMBDA m : m.kind = "feedback")

\* C12: a cycle update that returns RUNNING publishes exactly one feedback
\* message, carrying the Euclidean distance (in whole millimetres) between
\* the reference origin and the pose read in that cycle, and publishes it
\* before its motion command; no handler call publishes more than one
\* feedback message.
C12_OneFeedbackPerCycle ==
    /\ Len(FeedbackMessages(out)) <= 1
    /\ (state = "RUNNING" /\ cyc.pose_ok) =>
          /\ Len(out) = 2
          /\ out[1].kind = "feedback"
          /\ out[2].kind = "cmd_vel"
          /\ LET d == out[1].distance_traveled
                 n == DistSq(initial_pose_, cyc.current_pose)
             IN  d >= 0 /\ d * d <= n /\ n < (d + 1) * (d + 1)

C12_Witness ==
    /\ state = "RUNNING"
    /\ cyc.collision = "free"
    /\ FeedbackMessages(out) = <<Feedback(424)>>
    /\ VelocityCommands(out) = <<MotionCmd(twist_x_, twist_y_)>>

\* C13: once onConfigure has completed, max_radius_ >= robot_radius_: a
\* configured max_radius below robot_radius has become exactly
\* robot_radius, any other configured max_radius is unchanged.
C13_MaxRadiusClamped ==
    state # "UNCONFIGURED" =>
        /\ max_radius_ >= robot_radius_
        /\ \E mr \in MaxRadii :
              max_radius_ = IF mr < robot_radius_ THEN robot_radius_ ELSE mr

C13_Witness ==
    /\ state = "CONFIGURED"
    /\ ret = "NONE"
    /\ max_radius_ = robot_radius_
    /\ max_radius_ \notin MaxRadii

(***************************************************************************)
(* The sample points of a ray, as the claims describe them                 *)
(***************************************************************************)
\* the radii the inner loop samples: 0, resolution, ... up to radius
SampleRadii(costmap, radius) ==
    { k * costmap.resolution : k \in 0 .. (radius \div costmap.resolution) }

\* the point is on a cell of the grid
PointInGrid(costmap, x, y) ==
    /\ costmap.origin_x <= x
    /\ x < costmap.origin_x + costmap.size_x * costmap.resolution
    /\ costmap.origin_y <= y
    /\ y < costmap.origin_y + costmap.size_y * costmap.resolution

\* the cell a point of the grid is on
CellOf(costmap, x, y) ==
    ((x - costmap.origin_x) \div costmap.resolution)
    + ((y - costmap.origin_y) \div costmap.resolution) * costmap.size_x

\* every sample point of the ray is on a cell of the grid, of value < 253
RayInsideAndFree(costmap, pose, h, radius) ==
    \A r \in SampleRadii(costmap, radius) :
        LET x == pose.x + MulMilli(r, CosH(h))
            y == pose.y + MulMilli(r, SinH(h))
        IN  /\ PointInGrid(costmap, x, y)
            /\ CellOf(costmap, x, y) \in DOMAIN costmap.data
            /\ costmap.data[CellOf(costmap, x, y)] < 253

\* maps on which rays leave the grid on every side
EdgeMaps ==
    { OffsetMap, FreeMap(4), WithCells(FreeMap(5), EastWall, 254),
      WithCells(FreeMap(5), ThreeObstacles, 253) }

\* for each sweep over an edge map: every candidate classified safe has all
\* of its sample points on cells of the grid of value < 253
SamplesClassified ==
    [costmap \in EdgeMaps, pose \in Poses,
     radius \in { AdjustMaxRadius(rr, mr) : rr \in RobotRadii, mr \in MaxRadii } |->
        \A k \in 1 .. NumAngles :
            is_safe(costmap, pose, SweepAngles[k], radius)
                => RayInsideAndFree(costmap, pose, HalfStepOf(SweepAngles[k]), radius)]

\* C14: the sweep classifies a heading safe only if every sample point of
\* its ray is inside the grid, on a cell (i, j) of the array, of value below
\* 253; a sample point outside the grid (on the maximum edge, or just below
\* the origin) makes the heading unsafe and no cell outside the array is read.
C14_OutsideIsUnsafe ==
    (run.swept /\ grid \in EdgeMaps) =>
        SamplesClassified[grid, run.pose, max_radius_]

\* the sweep met a sample point exactly on the maximum-x edge and a sample
\* point less than one cell below the origin
C14_Witness ==
    /\ run.swept
    /\ grid = OffsetMap
    /\ run.pose = Pose(2500, 2500)
    /\ max_radius_ = 2000
    /\ SamplePoint(grid, run.pose, 0, 2000) = "index"
    /\ run.pose.x + MulMilli(2000, CosH(0)) = map_max_x(grid)
    /\ SamplePoint(grid, run.pose, 48, 2000) = "bounds"
    /\ TruncDiv(run.pose.x + MulMilli(2000, CosH(48)) - grid.origin_x,
                grid.resolution) = 0

(***************************************************************************)
(* The order of the checks of a cycle update                               *)
(***************************************************************************)
\* C15: a cycle update applies its checks in the order timeout, pose fetch,
\* target reached, collision, and the first that fires decides: past the
\* deadline (positive allowance) it stops and returns FAILED whatever pose
\* it would have read; otherwise, without a pose it returns FAILED; with a
\* pose at or beyond |target| it returns SUCCEEDED without running the
\* collision check; and only below |target| does the collision check run
\* and decide between FAILED and RUNNING.
C15_CheckOrder ==
    [][ CycleStep =>
          IF command.time_allowance > 0 /\ clock > end_time_
          THEN ret' = "FAILED" /\ out' = <<StopCmd>> /\ cyc' = NoCyc
          ELSE IF ~cyc'.pose_ok
          THEN ret' = "FAILED" /\ out' = <<>>
          ELSE IF DistSq(initial_pose_, cyc'.current_pose)
                     >= command.target_x * command.target_x
          THEN ret' = "SUCCEEDED" /\ cyc'.collision = "not_run"
          ELSE \/ cyc'.collision = "blocked" /\ ret' = "FAILED"
               \/ cyc'.collision = "free" /\ ret' = "RUNNING" ]_vars

\* a maneuver that succeeded, without a collision check, in the cycle that
\* ran exactly at its deadline
C15_Witness ==
    /\ state = "SUCCEEDED"
    /\ cyc.collision = "not_run"
    /\ cyc.pose_ok
    /\ command.time_allowance > 0
    /\ clock = end_time_
    /\ VelocityCommands(out) = <<StopCmd>>

\* C16: with a zero or negative time allowance no cycle update fails by
\* timeout, however far the clock is past the deadline: a cycle update never
\* publishes the stop command alone, a maneuver fails only without a pose
\* (or in the Run entry) or on a blocked collision check, succeeds only at
\* the target distance, and otherwise is still RUNNING.
C16_NoDeadlineNeverTimesOut ==
    command.time_allowance <= 0 =>
        /\ out # <<StopCmd>>
        /\ state = "FAILED" => (out = <<>> \/ cyc.collision = "blocked")
        /\ state = "SUCCEEDED" =>
              DistSq(initial_pose_, cyc.current_pose)
                  >= command.target_x * command.target_x
        /\ (cyc.pose_ok /\ cyc.collision = "free") => state = "RUNNING"

\* a maneuver with a negative allowance, still RUNNING when the clock of
\* the model has run out, long after its deadline
C16_Witness ==
    /\ state = "RUNNING"
    /\ command.time_allowance < 0
    /\ clock = MaxTime
    /\ clock > end_time_ + 1
    /\ cyc.collision = "free"
    /\ Len(out) = 2

(***************************************************************************)
(* The sweep that finds nothing                                            *)
(***************************************************************************)
\* for each sweep over an edge map: no candidate is safe
NoSafeHeading ==
    [costmap \in EdgeMaps, pose \in Poses,
     radius \in { AdjustMaxRadius(rr, mr) : rr \in RobotRadii, mr \in MaxRadii } |->
        \A k \in 1 .. NumAngles :
            ~is_safe(costmap, pose, SweepAngles[k], radius)]

\* C17: when every candidate of the sweep is unsafe, findBestDirection
\* returns heading 0, and an onRun that returns stores the velocity
\* speed * (cos 0, sin 0) = (speed, 0) and, the second pose fetch
\* succeeding, reports success and enters RUNNING.
C17_NoSafeHeadingGivesZero ==
    (/\ run.swept
     /\ grid \in EdgeMaps
     /\ NoSafeHeading[grid, run.pose, max_radius_])
    => /\ best_angle = 0
       /\ twist_x_ = 1000 * command.speed
       /\ twist_y_ = 0
       /\ command_x_ = command.target_x
       /\ run.pose2_ok => (ret = "SUCCEEDED" /\ state = "RUNNING")

C17_Witness ==
    /\ run.swept
    /\ grid = OffsetMap
    /\ max_radius_ = 3000
    /\ NoSafeHeading[grid, run.pose, max_radius_]
    /\ state = "RUNNING"
    /\ twist_x_ = 250000

(***************************************************************************)
(* What reaches the velocity sink                                          *)
(***************************************************************************)
\* the velocity commands among what was published that are not the stop
MotionCommands(published) ==
    SelectSeq(published, LAMBDA m : m.kind = "cmd_vel" /\ m # StopCmd)

\* C18: a motion command is written only by a cycle update that returns
\* RUNNING, and then once.  A cycle update that ends the maneuver writes no
\* motion command: on timeout (deadline passed, positive allowance) the
\* stop command alone, at the target and on a blocked collision check the
\* feedback and one stop command, and without a pose nothing at all.
C18_MotionOnlyWhileRunning ==
    /\ MotionCommands(out) # <<>> =>
          /\ state = "RUNNING" /\ ret = "RUNNING"
          /\ out = <<Feedback(feedback_distance_traveled),
                     MotionCmd(twist_x_, twist_y_)>>
    /\ state \in Terminal =>
          \/ out = <<>>
          \/ /\ out = <<StopCmd>>
             /\ state = "FAILED"
             /\ command.time_allowance > 0 /\ clock > end_time_
          \/ /\ out = <<Feedback(feedback_distance_traveled), StopCmd>>
             /\ cyc.pose_ok
             /\ state = "SUCCEEDED" \/ cyc.collision = "blocked"
    /\ state = "SUCCEEDED" => out # <<>>

\* a cycle update (not the Run entry) that failed without a pose, before
\* any deadline
C18_Witness ==
    /\ state = "FAILED"
    /\ out = <<>>
    /\ run = NoRun
    /\ rclcpp_ok
    /\ cyc = NoCyc
    /\ clock <= end_time_

(***************************************************************************)
(* free_threshold                                                          *)
(***************************************************************************)
\* the costmap with 253 in its cells of value 253 .. 255 and 0 elsewhere
Binarise(costmap) ==
    [costmap EXCEPT !.data = [c \in DOMAIN costmap.data |->
                                 IF costmap.data[c] >= 253 THEN 253 ELSE 0]]

\* C19: whatever free_threshold was configured, the heading onRun chooses is
\* the heading for the costmap in which the cells of value 253 .. 255 are
\* lethal and all others (0 .. 252) are free, for the same pose and radius;
\* the stored velocity follows from that heading and the goal's speed alone.
C19_ThresholdUnused ==
    (run.swept /\ Binarise(grid) \in Costmaps) =>
        LET heading == BestDirection[Binarise(grid), run.pose, max_radius_]
        IN  /\ free_threshold_ \in Thresholds
            /\ best_angle = heading
            /\ twist_x_ = Cos(heading) * command.speed
            /\ twist_y_ = Sin(heading) * command.speed

\* a sweep over cells of cost 252 and one cell of 255, configured with a
\* threshold below 252, that chose a heading other than 0
C19_Witness ==
    /\ run.swept
    /\ free_threshold_ = 200
    /\ \E c \in DOMAIN grid.data : grid.data[c] = 252
    /\ \E c \in DOMAIN grid.data : grid.data[c] = 255
    /\ best_angle # 0
    /\ state = "RUNNING"

(***************************************************************************)
(* One maneuver after another                                              *)
(***************************************************************************)
\* C20: every onRun that reports success has overwritten every field that
\* onCycleUpdate reads, from its own goal, grid, poses and clock: the
\* stored velocity is speed * (cos, sin) of the heading for the pose it
\* fetched, the target and the allowance are the goal's, the deadline is the
\* clock plus the goal's allowance and the reference origin is the pose of
\* its second fetch, whatever an earlier goal (also one whose Run failed
\* part-way) left in them.
C20_RunOverwritesFields ==
    [][ (state = "WAIT_SERVICE" /\ state' = "RUNNING") =>
          LET heading == BestDirection[grid, run'.pose, max_radius_]
          IN  /\ run'.pose2_ok
              /\ twist_x_' = Cos(heading) * command.speed
              /\ twist_y_' = Sin(heading) * command.speed
              /\ command_x_' = command.target_x
              /\ command_time_allowance_' = command.time_allowance
              /\ end_time_' = clock + command.time_allowance
              /\ initial_pose_' = run'.origin
              /\ initial_pose_' \in Poses ]_vars

\* a second maneuver has just entered RUNNING, with a goal without deadline,
\* after a maneuver with a deadline that published feedback
C20_Witness ==
    /\ goal_count = MaxGoals + 1
    /\ state = "RUNNING"
    /\ run.swept
    /\ feedback_distance_traveled > 0
    /\ command.time_allowance = 0
    /\ end_time_ = clock
    /\ clock > 2

====
